---- MODULE Spec2Model ----
(***************************************************************************)
(* Merkle tree engine (src/src/merkle.rs), the in-memory reserve database  *)
(* built on it (src/src/db.rs) and the two query handlers (src/src/main.rs) *)
(*                                                                         *)
(* Digests are symbolic: tagged_hash(tag, data) is the string              *)
(* "<tag:data>".  Every digest is a bracket-balanced string, so the        *)
(* function is injective in (tag, data), concatenation of two digests is   *)
(* uniquely decomposable and a || b differs from b || a unless a = b.      *)
(* Array indices are the source's 0-based indices.                         *)
(***************************************************************************)
EXTENDS Integers, Sequences, FiniteSets, TLC

\* ---- bounds --------------------------------------------------------------
MaxLeaves == 16
MaxAccounts == 8
NumWorkers == 2

Workers == 1..NumWorkers

VARIABLES
    user_data,     \* argument of InMemoryDatabase::create: Seq of <<id, balance>>
    leaf_tag,      \* MerkleTree.leaf_tag
    branch_tag,    \* MerkleTree.branch_tag
    nodes,         \* MerkleTree.nodes, a function on 0..total_nodes-1
    num_leaves,    \* MerkleTree.num_leaves
    total_nodes,   \* MerkleTree.total_nodes
    built_nodes,   \* MerkleTree.built_nodes
    users,         \* InMemoryDatabase.users, a function id -> balance
    pc,            \* position of the constructing thread
    values,        \* argument `values` of the pending build_rec call
    is_leaf,       \* argument `is_leaf` of the pending build_rec call
    wpc,           \* per worker: position inside a handler
    wreq,          \* per worker: the request being served
    wresp          \* per worker: the response (and the handler's locals)

tree == <<leaf_tag, branch_tag, nodes, num_leaves, total_nodes, built_nodes>>
build_vars == <<pc, values, is_leaf>>
worker_vars == <<wpc, wreq, wresp>>
vars == <<user_data, leaf_tag, branch_tag, nodes, num_leaves, total_nodes,
          built_nodes, users, pc, values, is_leaf, wpc, wreq, wresp>>

\* ---- digests --------------------------------------------------------------
\* [0; HASH_SIZE], the value initialize() fills the array with
ZeroHash == "0"

tagged_hash(tag, data) == "<" \o tag \o ":" \o data \o ">"

\* ---- merkle.rs: free functions ---------------------------------------------
RECURSIVE count_loop(_, _)
count_loop(num_nodes, n) ==
    IF n > 1
    THEN LET m == IF n % 2 # 0 THEN n + 1 ELSE n
         IN  count_loop(num_nodes + m, m \div 2)
    ELSE num_nodes

\* Variant of count_nodes that does not round an odd layer up to even
count_nodes_nopad(n) ==
    LET RECURSIVE loop(_, _)
        loop(acc, k) == IF k > 1 THEN loop(acc + k, (k + 1) \div 2) ELSE acc
    IN  loop(1, n)

count_nodes(n) == count_loop(1, n)

\* Variant of concat_hashes that concatenates each pair as b || a
concat_hashes_swapped(hashes) ==
    [k \in 1..((Len(hashes) + 1) \div 2) |->
        IF 2 * k <= Len(hashes)
        THEN hashes[2 * k] \o hashes[2 * k - 1]
        ELSE hashes[Len(hashes)] \o hashes[Len(hashes)]]

\* i = 0, 2, 4, ... in the source is k = 1, 2, 3, ... here (i = 2k - 2);
\* hashes[i] is hashes[2k-1] in 1-based indexing
concat_hashes(hashes) ==
    [k \in 1..((Len(hashes) + 1) \div 2) |->
        IF 2 * k - 2 # Len(hashes) - 1
        THEN hashes[2 * k - 1] \o hashes[2 * k]
        ELSE hashes[Len(hashes)] \o hashes[Len(hashes)]]

hash_values(vals, tag) == [k \in 1..Len(vals) |-> tagged_hash(tag, vals[k])]

parent_index(index) == (index - 1) \div 2

\* ---- db.rs ------------------------------------------------------------------
serialize_user(user_id, balance) ==
    "(" \o ToString(user_id) \o "," \o ToString(balance)

\* ---- merkle.rs: MerkleTree methods ---------------------------------------
\* Number of slots a layer of `len` hashes occupies
layer_nodes_of(len) == IF len % 2 = 0 \/ len = 1 THEN len ELSE len + 1

\* build_layer: the outcome is a record; ok = FALSE stands for the panic of
\* the usize subtraction or of the slice bounds check
build_layer(hashes) ==
    LET len         == Len(hashes)
        layer_nodes == layer_nodes_of(len)
        start       == total_nodes - built_nodes - layer_nodes
    IN  IF start < 0 \/ start + layer_nodes > total_nodes
        THEN [ok |-> FALSE, nodes |-> nodes, built_nodes |-> built_nodes]
        ELSE [ok |-> TRUE,
              nodes |->
                [i \in DOMAIN nodes |->
                    IF i >= start /\ i < start + len
                    THEN hashes[i - start + 1]
                    ELSE IF len % 2 # 0 /\ len # 1 /\ i = start + len
                    THEN hashes[len]
                    ELSE nodes[i]],
              built_nodes |-> built_nodes + layer_nodes]

get_root == nodes[0]

Left == "Left"
Right == "Right"

\* Option<MerkleProof> and the panic outcome, as records of one shape
None == [kind |-> "None", items |-> <<>>]
Panic == [kind |-> "Panic", items |-> <<>>]
Some(items) == [kind |-> "Some", items |-> items]

\* get_sibling: ok = FALSE stands for the index-out-of-bounds panic
get_sibling(index) ==
    IF index % 2 = 0
    THEN IF index - 1 \in DOMAIN nodes
         THEN [ok |-> TRUE, item |-> <<Left, nodes[index - 1]>>]
         ELSE [ok |-> FALSE, item |-> <<Left, ZeroHash>>]
    ELSE IF index + 1 \in DOMAIN nodes
         THEN [ok |-> TRUE, item |-> <<Right, nodes[index + 1]>>]
         ELSE [ok |-> FALSE, item |-> <<Right, ZeroHash>>]

RECURSIVE build_proof_loop(_, _)
build_proof_loop(proof, i) ==
    IF i > 0
    THEN LET sibling == get_sibling(i)
         IN  IF sibling.ok
             THEN build_proof_loop(Append(proof, sibling.item), parent_index(i))
             ELSE Panic
    ELSE Some(proof)

build_proof(index) == build_proof_loop(<<>>, index)

\* Option<usize>: NoIndex is None
NoIndex == -1

\* Variant of find_leaf whose scan starts at index 0
find_leaf_from_root(hash) ==
    LET hits == {i \in 0..(total_nodes - 1) : nodes[i] = hash}
    IN  IF hits = {} THEN NoIndex
        ELSE CHOOSE i \in hits : \A j \in hits : i <= j

find_leaf(hash) ==
    LET hits == {i \in (total_nodes - num_leaves + 1)..(total_nodes - 1) :
                    nodes[i] = hash}
    IN  IF hits = {} THEN NoIndex
        ELSE CHOOSE i \in hits : \A j \in hits : i <= j

get_proof(value) ==
    LET hash  == tagged_hash(leaf_tag, value)
        index == find_leaf(hash)
    IN  IF index # NoIndex THEN build_proof(index) ELSE None

\* ---- db.rs: InMemoryDatabase ----------------------------------------------
\* HashMap::from_iter over user_data: a later record of an id replaces an
\* earlier one
user_map(data) ==
    [id \in {data[k][1] : k \in 1..Len(data)} |->
        LET last == CHOOSE k \in 1..Len(data) :
                        /\ data[k][1] = id
                        /\ \A j \in 1..Len(data) : data[j][1] = id => j <= k
        IN  data[last][2]]

\* Option<u64>: NoBalance is None
NoBalance == -1

db_get_balance(user_id) ==
    IF user_id \in DOMAIN users THEN users[user_id] ELSE NoBalance

db_get_root == get_root

db_get_proof(user_id) ==
    LET balance == db_get_balance(user_id)
    IN  IF balance = NoBalance
        THEN None
        ELSE get_proof(serialize_user(user_id, balance))

\* ---- initial states ------------------------------------------------------
\* The records of TEST_DATA have the shape (i, 1111 * i)
Record(i) == <<i, 1111 * i>>

NoRequest == [route |-> "none", id |-> 0]
NoResponse == [status |-> "none", balance |-> 0, proof |-> <<>>, root |-> ""]

\* The arguments of create: up to max_records records, the one at position
\* dup (if any) a copy of the first record, and the two tags, equal or not
InitWith(max_records) ==
    /\ \E n \in 0..max_records, dup \in 0..max_records, bt \in {"L", "B"} :
          /\ dup <= n
          /\ user_data = [i \in 1..n |-> IF i = dup THEN Record(1)
                                          ELSE Record(i)]
          /\ leaf_tag = "L"
          /\ branch_tag = bt
    /\ nodes = [i \in {} |-> ZeroHash]
    /\ num_leaves = 0
    /\ total_nodes = 0
    /\ built_nodes = 0
    /\ users = [i \in {} |-> 0]
    /\ pc = "create"
    /\ values = <<>>
    /\ is_leaf = TRUE
    /\ wpc = [w \in Workers |-> "idle"]
    /\ wreq = [w \in Workers |-> NoRequest]
    /\ wresp = [w \in Workers |-> NoResponse]

\* ---- construction --------------------------------------------------------
\* InMemoryDatabase::create up to the call of build_rec: serialize the
\* records, construct the tree value, initialize()
serialized_user_data ==
    [k \in 1..Len(user_data) |->
        serialize_user(user_data[k][1], user_data[k][2])]

Create ==
    /\ pc = "create"
    /\ LET serialized == serialized_user_data
           num_nodes  == count_nodes(Len(serialized))
       IN  /\ num_leaves' = Len(serialized)
           /\ nodes' = [i \in 0..(num_nodes - 1) |-> ZeroHash]
           /\ total_nodes' = num_nodes
           /\ built_nodes' = 0
           /\ values' = serialized
           /\ is_leaf' = TRUE
    /\ pc' = "build_rec"
    /\ UNCHANGED <<user_data, leaf_tag, branch_tag, users, worker_vars>>

\* One activation of build_rec
BuildRec ==
    /\ pc = "build_rec"
    /\ LET tag    == IF is_leaf THEN leaf_tag ELSE branch_tag
           hashes == hash_values(values, tag)
           layer  == build_layer(hashes)
       IN  IF ~layer.ok
           THEN /\ pc' = "panic"
                /\ UNCHANGED <<nodes, built_nodes, values, is_leaf>>
           ELSE /\ nodes' = layer.nodes
                /\ built_nodes' = layer.built_nodes
                /\ IF Len(hashes) > 1
                   THEN /\ values' = concat_hashes(hashes)
                        /\ is_leaf' = FALSE
                        /\ pc' = "build_rec"
                   ELSE /\ values' = <<>>
                        /\ is_leaf' = is_leaf
                        /\ pc' = "collect"
    /\ UNCHANGED <<user_data, leaf_tag, branch_tag, num_leaves, total_nodes,
                   users, worker_vars>>

\* The rest of InMemoryDatabase::create: collect the map, return the pair
CollectUsers ==
    /\ pc = "collect"
    /\ users' = user_map(user_data)
    /\ pc' = "ready"
    /\ UNCHANGED <<user_data, tree, values, is_leaf, worker_vars>>

\* ---- main.rs: the handlers, run by concurrent workers -------------------
\* The account ids a request may name: every committed id and one absent id
RequestIds == 1..(Len(user_data) + 1)

\* GET /root
HandleRoot(w) ==
    /\ pc = "ready"
    /\ wpc[w] = "idle"
    /\ wreq' = [wreq EXCEPT ![w] = [route |-> "root", id |-> 0]]
    /\ wresp' = [wresp EXCEPT ![w] =
                    [status |-> "OK", balance |-> 0, proof |-> <<>>,
                     root |-> db_get_root]]
    /\ wpc' = [wpc EXCEPT ![w] = "done"]
    /\ UNCHANGED <<user_data, tree, users, build_vars>>

\* Variant of the balance lookup that takes the entry out of the map
HandleProofBalance_remove(w, user_id) ==
    /\ pc = "ready"
    /\ wpc[w] = "idle"
    /\ wreq' = [wreq EXCEPT ![w] = [route |-> "proof", id |-> user_id]]
    /\ LET balance == db_get_balance(user_id)
       IN  IF balance = NoBalance
           THEN /\ wresp' = [wresp EXCEPT ![w] =
                                [status |-> "NOT_FOUND", balance |-> 0,
                                 proof |-> <<>>, root |-> ""]]
                /\ wpc' = [wpc EXCEPT ![w] = "done"]
                /\ users' = users
           ELSE /\ wresp' = [wresp EXCEPT ![w] =
                                [status |-> "none", balance |-> balance,
                                 proof |-> <<>>, root |-> ""]]
                /\ wpc' = [wpc EXCEPT ![w] = "unwrap"]
                /\ users' = [id \in DOMAIN users \ {user_id} |-> users[id]]
    /\ UNCHANGED <<user_data, tree, build_vars>>

\* GET /proof/{id}, line 52: look the balance up, answer 404 if absent
HandleProofBalance(w, user_id) ==
    /\ pc = "ready"
    /\ wpc[w] = "idle"
    /\ wreq' = [wreq EXCEPT ![w] = [route |-> "proof", id |-> user_id]]
    /\ LET balance == db_get_balance(user_id)
       IN  IF balance = NoBalance
           THEN /\ wresp' = [wresp EXCEPT ![w] =
                                [status |-> "NOT_FOUND", balance |-> 0,
                                 proof |-> <<>>, root |-> ""]]
                /\ wpc' = [wpc EXCEPT ![w] = "done"]
           ELSE /\ wresp' = [wresp EXCEPT ![w] =
                                [status |-> "none", balance |-> balance,
                                 proof |-> <<>>, root |-> ""]]
                /\ wpc' = [wpc EXCEPT ![w] = "unwrap"]
    /\ UNCHANGED <<user_data, tree, users, build_vars>>

\* GET /proof/{id}, lines 53-54: db.get_proof(user_id).unwrap() and the answer
HandleProofUnwrap(w) ==
    /\ wpc[w] = "unwrap"
    /\ LET proof == db_get_proof(wreq[w].id)
       IN  wresp' = [wresp EXCEPT ![w] =
                        IF proof.kind = "Some"
                        THEN [status |-> "OK", balance |-> wresp[w].balance,
                              proof |-> proof.items, root |-> ""]
                        ELSE [status |-> "PANIC", balance |-> 0,
                              proof |-> <<>>, root |-> ""]]
    /\ wpc' = [wpc EXCEPT ![w] = "done"]
    /\ UNCHANGED <<user_data, tree, users, build_vars, wreq>>

\* The response is sent; the worker takes the next request
Respond(w) ==
    /\ wpc[w] = "done"
    /\ wpc' = [wpc EXCEPT ![w] = "idle"]
    /\ wreq' = [wreq EXCEPT ![w] = NoRequest]
    /\ wresp' = [wresp EXCEPT ![w] = NoResponse]
    /\ UNCHANGED <<user_data, tree, users, build_vars>>

Next ==
    \/ Create
    \/ BuildRec
    \/ CollectUsers
    \/ \E w \in Workers : HandleRoot(w)
    \/ \E w \in Workers : \E user_id \in RequestIds : HandleProofBalance(w, user_id)
    \/ \E w \in Workers : HandleProofUnwrap(w)
    \/ \E w \in Workers : Respond(w)

\* The service: construction of the database, then the workers' handlers
Init == InitWith(MaxAccounts)
Spec == Init /\ [][Next]_vars

\* Construction alone, over longer record sequences
NextTree ==
    \/ Create
    \/ BuildRec
    \/ CollectUsers

InitTree == InitWith(MaxLeaves)
SpecTree == InitTree /\ [][NextTree]_vars

\* ---- the reference construction of spec sections 4.2 and 4.3 ------------
\* A layer of odd length gets a duplicate of its last element
Padded(layer) ==
    IF Len(layer) % 2 = 1 THEN Append(layer, layer[Len(layer)]) ELSE layer

\* The layer above: tagged_hash(branch_tag, a || b) over consecutive pairs
ParentLayer(layer) ==
    LET p == Padded(layer)
    IN  [k \in 1..(Len(p) \div 2) |->
            tagged_hash(branch_tag, p[2 * k - 1] \o p[2 * k])]

\* The layers from the leaf layer (first) to the root layer (last)
RECURSIVE LayersFrom(_)
LayersFrom(layer) ==
    IF Len(layer) <= 1 THEN <<layer>>
    ELSE <<layer>> \o LayersFrom(ParentLayer(layer))

LeafLayer == hash_values(serialized_user_data, leaf_tag)
RefLayers == LayersFrom(LeafLayer)
RefRoot == RefLayers[Len(RefLayers)][1]

\* The verification contract: fold the proof items over the leaf hash
RECURSIVE VerifyFold(_, _)
VerifyFold(current, items) ==
    IF items = <<>> THEN current
    ELSE LET s == items[1][2]
         IN  VerifyFold(IF items[1][1] = Left
                        THEN tagged_hash(branch_tag, s \o current)
                        ELSE tagged_hash(branch_tag, current \o s),
                        Tail(items))

\* Number of proof items of the record at 0-based position idx of layer k
\* (1 = leaf layer): none at the root layer, none where idx is the last index
\* of a layer of odd length, one everywhere else
RECURSIVE ExpectedItems(_, _)
ExpectedItems(k, idx) ==
    IF k >= Len(RefLayers) THEN 0
    ELSE (IF idx % 2 = 0 /\ idx = Len(RefLayers[k]) - 1 THEN 0 ELSE 1)
         + ExpectedItems(k + 1, idx \div 2)

Built == pc \in {"collect", "ready"}
Ready == pc = "ready"

\* Values a caller may ask a proof for, besides the committed records: a
\* value never inserted, the empty buffer, an absent account's record and the
\* concatenation of two sibling digests (the data of a branch node)
AbsentValues ==
    {"ggg", "", serialize_user(Len(user_data) + 1, 1111)}
    \cup {nodes[i] \o nodes[i + 1] :
            i \in {j \in DOMAIN nodes : j % 2 = 1 /\ j + 1 \in DOMAIN nodes}}

CommittedValues == {serialized_user_data[k] : k \in 1..Len(user_data)}

\* ---- claims ---------------------------------------------------------------
\* C1: proof verification round-trip.  For every value for which get_proof
\* returns a proof, folding the proof items over tagged_hash(leaf_tag, value)
\* yields get_root().
C1_RoundTrip ==
    Ready =>
        \A v \in CommittedValues \cup AbsentValues :
            LET p == get_proof(v)
            IN  p.kind = "Some" =>
                    VerifyFold(tagged_hash(leaf_tag, v), p.items) = get_root

\* C2: proof existence.  For every non-empty record sequence and every
\* position in it, get_proof of the record at that position is a proof.
C2_ProofExists ==
    (Ready /\ Len(user_data) >= 1) =>
        \A k \in 1..Len(user_data) :
            get_proof(serialized_user_data[k]).kind = "Some"

\* C3: odd-layer self-pairing.  A returned proof has no item for a layer in
\* which the path node is the last element of an odd-length layer and one item
\* for every other layer below the root (the path is that of a position
\* holding the value).
C3_NoFabricatedSibling ==
    Ready =>
        \A k \in 1..Len(user_data) :
            LET p == get_proof(serialized_user_data[k])
            IN  p.kind = "Some" =>
                    \E j \in 1..Len(user_data) :
                        /\ serialized_user_data[j] = serialized_user_data[k]
                        /\ Len(p.items) = ExpectedItems(1, j - 1)

UniqueIds ==
    \A j, k \in 1..Len(user_data) :
        user_data[j][1] = user_data[k][1] => j = k

\* C4: proof-of-reserves binding.  With unique ids, a finished per-account
\* proof query answers OK with the stored balance and a proof for an id of the
\* store, and NOT_FOUND without a proof for an absent id; it never panics.
C4_ProofOfReserves ==
    UniqueIds =>
        \A w \in Workers :
            (wpc[w] = "done" /\ wreq[w].route = "proof") =>
                IF wreq[w].id \in DOMAIN users
                THEN /\ wresp[w].status = "OK"
                     /\ wresp[w].balance = users[wreq[w].id]
                     /\ db_get_proof(wreq[w].id).kind = "Some"
                ELSE /\ wresp[w].status = "NOT_FOUND"
                     /\ wresp[w].proof = <<>>

\* C5: root computation.  For every non-empty record sequence, get_root() is
\* the result of the reference reduction: leaf hashes in input order, then
\* pairwise branch hashes with a trailing unpaired element paired with itself,
\* until one digest remains.
C5_RootIsReduction ==
    (Ready /\ Len(user_data) >= 1) => get_root = RefRoot

C5_Witness ==
    /\ Ready
    /\ Len(user_data) = 5
    /\ get_root = RefRoot
    /\ Len(RefLayers) = 4

\* C6: proof absence.  For every value whose leaf-tagged hash differs from the
\* leaf hash of every committed record, get_proof(value) is None.
C6_ProofAbsent ==
    Ready =>
        \A v \in CommittedValues \cup AbsentValues :
            (\A k \in 1..Len(LeafLayer) :
                tagged_hash(leaf_tag, v) # LeafLayer[k])
            => get_proof(v) = None

\* The absent value hashes to a branch node (equal tags) and is not found
C6_Witness ==
    /\ Ready
    /\ Len(user_data) >= 2
    /\ leaf_tag = branch_tag
    /\ tagged_hash(leaf_tag, nodes[1] \o nodes[2]) = nodes[0]
    /\ get_proof(nodes[1] \o nodes[2]) = None
    /\ get_proof("ggg") = None

\* C7: empty input is rejected.  Construction from an empty record sequence
\* never returns a tree (one whose get_root() yields a digest).
C7_EmptyRejected ==
    Built => Len(user_data) >= 1

\* C8: read-only sharing.  After construction no step of any worker changes
\* the tree or the id-to-balance map, and every finished query carries the
\* result that the same query yields when evaluated alone on the constructed
\* pair.
AloneResponse(req) ==
    IF req.route = "root"
    THEN [status |-> "OK", balance |-> 0, proof |-> <<>>, root |-> nodes[0]]
    ELSE IF req.id \notin DOMAIN users
    THEN [status |-> "NOT_FOUND", balance |-> 0, proof |-> <<>>, root |-> ""]
    ELSE LET p == get_proof(serialize_user(req.id, user_map(user_data)[req.id]))
         IN  IF p.kind = "Some"
             THEN [status |-> "OK", balance |-> user_map(user_data)[req.id],
                   proof |-> p.items, root |-> ""]
             ELSE [status |-> "PANIC", balance |-> 0, proof |-> <<>>,
                   root |-> ""]

C8_ReadOnlySharing ==
    /\ [][Ready => (tree' = tree /\ users' = users /\ user_data' = user_data)]_vars
    /\ [](\A w \in Workers :
            wpc[w] = "done" => wresp[w] = AloneResponse(wreq[w]))

\* Two queries in flight at once, one finished with a proof
C8_Witness ==
    /\ Ready
    /\ \E w1, w2 \in Workers :
          /\ w1 # w2
          /\ wpc[w1] = "unwrap"
          /\ wpc[w2] = "done"
          /\ wresp[w2].status = "OK"
          /\ wresp[w2].proof # <<>>

\* C9: heap layout.  For n >= 2 the node at position j of the layer at depth d
\* sits at array index 2^d - 1 + j; hence, below the root, the node at
\* parent_index(i) is the branch hash of node i and its pair sibling
\* nodes[i-1] (i even) / nodes[i+1] (i odd).
C9_HeapLayout ==
    (Ready /\ Len(user_data) >= 2) =>
        \A k \in 1..Len(RefLayers) :
            \A j \in 0..(Len(RefLayers[k]) - 1) :
                LET d == Len(RefLayers) - k
                    i == 2 ^ d - 1 + j
                IN  /\ i \in DOMAIN nodes
                    /\ nodes[i] = RefLayers[k][j + 1]
                    /\ i > 0 =>
                          /\ get_sibling(i).ok
                          /\ nodes[parent_index(i)] =
                                VerifyFold(nodes[i], <<get_sibling(i).item>>)

\* C10: pre-allocation is exact.  For n >= 1 construction never panics, the
\* start of every layer is inside the array and non-negative, the slots still
\* at their initial value are exactly those below the built region (layers
\* neither overlap nor leave gaps), the one-element layer is written to index
\* 0, and on return built_nodes = total_nodes = count_nodes(n) with no slot
\* left at its initial value.
C10_ExactAllocation ==
    Len(user_data) >= 1 =>
        /\ pc # "panic"
        /\ pc # "create" =>
              /\ DOMAIN nodes = 0..(total_nodes - 1)
              /\ built_nodes <= total_nodes
              /\ \A i \in DOMAIN nodes :
                    (nodes[i] = ZeroHash) <=> (i < total_nodes - built_nodes)
        /\ pc = "build_rec" =>
              LET start == total_nodes - built_nodes - layer_nodes_of(Len(values))
              IN  /\ start >= 0
                  /\ Len(values) = 1 => start = 0
        /\ Built =>
              /\ built_nodes = total_nodes
              /\ \A i \in DOMAIN nodes : nodes[i] # ZeroHash

\* A tree with an odd layer at two depths is built
C10_Witness ==
    /\ Built
    /\ Len(user_data) = 5
    /\ built_nodes = 13
    /\ total_nodes = 13
    /\ nodes[0] # ZeroHash

====
